---- MODULE Spec2Model ----
(***************************************************************************)
(* ServicePrincipalCredentialsProvider                                     *)
(* (src/src/databricks/sqlalchemy/_service_principal.py): construction     *)
(* with OpenID discovery, and the lock-guarded token cache behind the      *)
(* header factory, called by several threads under a controllable clock.   *)
(***************************************************************************)
EXTENDS Integers, Sequences, FiniteSets, TLC

\* ------------------------------------------------------------------ bounds
NumThreads == 2
MaxCalls == 2
MaxTime == 2

Threads == 1..NumThreads

\* ------------------------------------------------------- program constants
\* parsed.get("expires_in", 3600) and the except branch of int(...)
DefaultExpiresIn == 3600

\* longest hostname, scheme apart, given to _normalize_hostname on its own
MaxHostLen == 4

\* refresh_margin values a caller may configure (0 as in the unit test, and
\* one as large as the default lifetime)
Margins == {0, 3600}

\* integer expires_in values the token endpoint may send
ExpiresInValues == {-1, 0, 2}

\* ----------------------------------------------------------------- strings
\* A string is a sequence of one-character strings.
Https == <<"h", "t", "t", "p", "s", ":", "/", "/">>

StartsWith(s, p) == Len(s) >= Len(p) /\ SubSeq(s, 1, Len(p)) = p

RECURSIVE RStripSlash(_)
RStripSlash(s) ==
    IF s # <<>> /\ s[Len(s)] = "/" THEN RStripSlash(SubSeq(s, 1, Len(s) - 1)) ELSE s

\* _normalize_hostname
NormalizeHostname(hostname) ==
    LET maybe_scheme == IF StartsWith(hostname, Https) THEN <<>> ELSE Https
        trimmed == IF StartsWith(hostname, Https)
                   THEN SubSeq(hostname, Len(Https) + 1, Len(hostname))
                   ELSE hostname
    IN RStripSlash(maybe_scheme \o trimmed)

\* server_hostname arguments tried by the constructor
HostInputs == {<<>>, <<"a", "/">>}

\* ------------------------------------------------------------------ tokens
\* The cached _access_token: None, the empty string, or the id-th token string
\* issued by the endpoint.
NoToken == [kind |-> "none", id |-> 0]
EmptyToken == [kind |-> "empty", id |-> 0]
StrToken(n) == [kind |-> "str", id |-> n]

\* Python truthiness of an Optional[str]
Truthy(tok) == tok.kind = "str"

Max(a, b) == IF a >= b THEN a ELSE b

\* ----------------------------------------------------------- HTTP responses
\* What the discovery GET can come back with.
DiscoveryOutcomes ==
    {"transport", "http_error", "unparsable", "not_object", "absent", "empty", "ok"}

\* expires_in field of a token response: absent, a value int() rejects with
\* TypeError or ValueError, or an integer
ExpiresInFields ==
    {[kind |-> "absent", val |-> 0], [kind |-> "nonnum", val |-> 0]}
    \cup {[kind |-> "int", val |-> v] : v \in ExpiresInValues}

NoField == [kind |-> "absent", val |-> 0]

\* What the token POST can come back with: no response at all (timeout,
\* connection error), an error status, a body that is not JSON, a JSON body
\* that is not an object, or an object without access_token, with an empty
\* one (a falsy value, as JSON null is) or with a token string.
PostOutcomes ==
    {[status |-> s, body |-> "none", tok |-> "absent", ein |-> NoField] :
        s \in {"transport", "http_error"}}
    \cup {[status |-> "ok", body |-> b, tok |-> "absent", ein |-> NoField] :
        b \in {"unparsable", "not_object", "object"}}
    \cup {[status |-> "ok", body |-> "object", tok |-> k, ein |-> e] :
        k \in {"empty", "str"}, e \in ExpiresInFields}

\* ------------------------------------------------------------------- state
VARIABLES
    phase,            \* "new", "discovering", "ready" or "failed" (constructor)
    args,             \* the constructor's arguments
    ctor_err,         \* the exception the constructor raised, or "none"
    disc,             \* what the discovery GET came back with
    hostname,         \* self._hostname
    client_id,        \* self._client_id
    client_secret,    \* self._client_secret
    scopes,           \* self._scopes
    refresh_margin,   \* self._refresh_margin
    token_endpoint,   \* self._token_endpoint ("unset" until discovered)
    access_token,     \* self._access_token
    expires_at,       \* self._expires_at
    lock,             \* self._lock: the set of threads holding it
    now,              \* time.time()
    gets,             \* discovery GETs issued
    posts,            \* token POSTs issued
    calls,            \* header_factory calls started
    storedPost,       \* serial number of the POST whose response was last stored
    latest,           \* access_token of the latest response _refresh_token accepted
    payload,          \* URL and form fields of the latest token POST
    th                \* per thread: position and locals of its header_factory call

vars == <<phase, args, ctor_err, disc, hostname, client_id, client_secret,
          scopes, refresh_margin, token_endpoint, access_token, expires_at, lock,
          now, gets, posts, calls, storedPost, latest, payload, th>>

ctorVars == <<phase, args, ctor_err, disc, hostname, client_id, client_secret,
              scopes, refresh_margin, token_endpoint, gets>>

\* no token POST has been issued
NoPayload == [url |-> "none", grant_type |-> "none", client_id |-> <<>>,
              client_secret |-> <<>>, scope |-> <<>>]

NoArgs == [server_hostname |-> <<>>, client_id |-> <<>>, client_secret |-> <<>>,
           refresh_margin |-> 0]

\* A thread outside any header_factory call. Besides its position (pc) a
\* thread holds the locals of its call and what the call observed:
\*   callPosts  POSTs issued before the call began
\*   sawNow, sawTok, sawExp  clock and cache when _needs_refresh ran
\*   myPost     serial number of the POST this call issued (0: none)
\*   acc, ein, einKind  access_token and expires_in of the accepted response
\*   stNow      clock reading of line 143
\*   stored     this call's _refresh_token ran to its end
\*   why, err   why the call failed and the exception it raises
\*   ret, hdr   what _get_token and header_factory return
BlankCall ==
    [pc |-> "idle", callPosts |-> 0,
     sawNow |-> 0, sawTok |-> NoToken, sawExp |-> 0,
     myPost |-> 0, why |-> "none", err |-> "none",
     acc |-> NoToken, ein |-> 0, einKind |-> "none",
     stNow |-> 0, stored |-> FALSE,
     ret |-> NoToken, hdr |-> [Authorization |-> <<>>]]

\* The locals of _get_token and _refresh_token die when the with block is left.
LeaveLock(c) ==
    [c EXCEPT !.callPosts = 0, !.sawNow = 0, !.sawTok = NoToken, !.sawExp = 0,
              !.myPost = 0, !.acc = NoToken, !.ein = 0, !.einKind = "none",
              !.stNow = 0, !.stored = FALSE, !.why = "none"]

Init ==
    /\ phase = "new"
    /\ args = NoArgs
    /\ ctor_err = "none"
    /\ disc = "none"
    /\ hostname = <<>>
    /\ client_id = <<>>
    /\ client_secret = <<>>
    /\ scopes = <<>>
    /\ refresh_margin = 0
    /\ token_endpoint = "unset"
    /\ access_token = NoToken
    /\ expires_at = 0
    /\ lock = {}
    /\ now = 0
    /\ gets = 0
    /\ posts = 0
    /\ calls = 0
    /\ storedPost = 0
    /\ latest = NoToken
    /\ payload = NoPayload
    /\ th = [t \in Threads |-> BlankCall]

\* ------------------------------------------------------------- construction
ClientIds == {<<>>, <<"i", "d">>}
ClientSecrets == {<<>>, <<"s">>}

\* as MissingArgument, with the client_secret check forgotten
MissingArgumentNoSecret(h, cid, sec) == h = <<>> \/ cid = <<>>

\* __init__, lines 41-46: the required-argument checks
MissingArgument(h, cid, sec) == h = <<>> \/ cid = <<>> \/ sec = <<>>

\* DEFAULT_SCOPES
DefaultScopes == << <<"s", "q", "l">> >>

\* scopes arguments tried by the constructor: None, the default given
\* explicitly, and a list of two
ScopeInputs == {<<>>, DefaultScopes, << <<"a">>, <<"b">> >>}

\* line 56: oauth_endpoints.get_scopes_mapping, which belongs to the driver;
\* the endpoints chosen with use_azure_auth=False are taken to leave the
\* list as it is
ScopesMapping(sc) == sc

\* " ".join(strs)
RECURSIVE JoinSpace(_)
JoinSpace(strs) ==
    IF strs = <<>> THEN <<>>
    ELSE IF Len(strs) = 1 THEN strs[1]
    ELSE strs[1] \o <<" ">> \o JoinSpace(Tail(strs))

\* as TokenRequest, with only the first scope sent
TokenRequestFirstScope(url, cid, sec, sc) ==
    [url |-> url, grant_type |-> "client_credentials", client_id |-> cid,
     client_secret |-> sec, scope |-> sc[1]]

\* _refresh_token, lines 111-120: the URL and the form fields of the POST
TokenRequest(url, cid, sec, sc) ==
    [url |-> url, grant_type |-> "client_credentials", client_id |-> cid,
     client_secret |-> sec, scope |-> JoinSpace(sc)]

\* __init__ up to the discovery request. eps: whether get_oauth_endpoints
\* (databricks.sql) knows the host.
Construct(h, cid, sec, sc, eps, m) ==
    /\ phase = "new"
    /\ args' = [server_hostname |-> h, client_id |-> cid, client_secret |-> sec,
                refresh_margin |-> m]
    /\ IF MissingArgument(h, cid, sec)
       THEN /\ phase' = "failed"
            /\ ctor_err' = "ConfigurationError"
            /\ UNCHANGED <<hostname, client_id, client_secret, scopes,
                           refresh_margin, gets>>
       ELSE IF ~eps
       THEN /\ phase' = "failed"
            /\ ctor_err' = "ConfigurationError"
            /\ hostname' = NormalizeHostname(h)
            /\ UNCHANGED <<client_id, client_secret, scopes, refresh_margin, gets>>
       ELSE /\ phase' = "discovering"
            /\ hostname' = NormalizeHostname(h)
            /\ client_id' = cid
            /\ client_secret' = sec
            /\ scopes' = ScopesMapping(IF sc # <<>> THEN sc ELSE DefaultScopes)
            /\ refresh_margin' = m
            /\ gets' = gets + 1
            /\ UNCHANGED ctor_err
    /\ UNCHANGED <<disc, token_endpoint, access_token, expires_at, lock, now,
                   posts, calls, storedPost, latest, th, payload>>

\* _discover_token_endpoint: the exception a discovery outcome ends in
DiscoveryError(d) ==
    IF d \in {"transport", "http_error", "unparsable"}
    THEN "AuthenticationError"                \* the try/except of lines 80-87
    ELSE IF d = "not_object" THEN "AttributeError"   \* config.get on a non-dict
    ELSE IF d \in {"absent", "empty"} THEN "AuthenticationError"  \* lines 90-93
    ELSE "none"

\* the discovery GET returns and __init__ ends
Discover(d) ==
    /\ phase = "discovering"
    /\ disc' = d
    /\ ctor_err' = DiscoveryError(d)
    /\ IF DiscoveryError(d) = "none"
       THEN phase' = "ready" /\ token_endpoint' = "endpoint"
       ELSE phase' = "failed" /\ UNCHANGED token_endpoint
    /\ UNCHANGED <<args, hostname, client_id, client_secret, scopes, refresh_margin,
                   access_token, expires_at, lock, now, gets, posts, calls,
                   storedPost, latest, th, payload>>

\* ------------------------------------------------------------------- clock
Tick ==
    /\ now < MaxTime
    /\ now' = now + 1
    /\ UNCHANGED <<ctorVars, access_token, expires_at, lock, posts, calls,
                   storedPost, latest, th, payload>>

\* ----------------------------------------------------------- header factory
\* as LockFree, for a lock that never blocks
LockNeverBlocks == TRUE

\* `with self._lock` can be entered
LockFree == lock = {}

\* as Released, for a with block that keeps the lock when an exception or a
\* return leaves it
ReleasedNever(t) == lock

\* the lock once thread t has left the with block
Released(t) == lock \ {t}

\* as NeedsRefresh, with the cache never consulted
NeedsRefreshAlways(tok, exp, margin, n) == TRUE

\* as NeedsRefresh, with the margin left out of the comparison
NeedsRefreshNoMargin(tok, exp, margin, n) ==
    IF ~Truthy(tok) THEN TRUE ELSE n >= exp

\* as NeedsRefresh, with > for >=
NeedsRefreshStrict(tok, exp, margin, n) ==
    IF ~Truthy(tok) THEN TRUE ELSE n > exp - margin

\* _needs_refresh, with the cache and the clock reading as arguments
NeedsRefresh(tok, exp, margin, n) ==
    IF ~Truthy(tok) THEN TRUE ELSE n >= exp - margin

\* as ParseExpiresIn, with the except branch falling back to 0
ParseExpiresInZeroFallback(e) ==
    IF e.kind = "int" THEN e.val
    ELSE IF e.kind = "absent" THEN DefaultExpiresIn ELSE 0

\* lines 136-140: expires_in as _refresh_token reads it (int() of a number;
\* the default when the field is absent or int() raises TypeError or
\* ValueError)
ParseExpiresIn(e) ==
    IF e.kind = "int" THEN e.val ELSE DefaultExpiresIn

\* as NewExpiry, without the clamp to refresh_margin + 1
NewExpiryUnclamped(n, expires_in, margin) == n + expires_in

\* line 143: the expiry stored for a token fetched at clock reading n
NewExpiry(n, expires_in, margin) == n + Max(expires_in, margin + 1)

\* lines 118-140: why _refresh_token raises on response r, or "none"
RefreshFailure(r) ==
    IF r.status = "transport" THEN "transport"          \* requests.post raises
    ELSE IF r.status = "http_error" THEN "http_error"   \* raise_for_status
    ELSE IF r.body = "unparsable" THEN "unparsable"     \* response.json()
    ELSE IF r.body = "not_object" THEN "not_object"     \* parsed["access_token"]
    ELSE IF r.tok = "absent" THEN "missing"             \* KeyError
    ELSE "none"

\* as RefreshError, with raise_for_status left outside the try as well
RefreshErrorStatusUnwrapped(why) ==
    IF why \in {"transport", "http_error"} THEN "RequestException"
    ELSE "AuthenticationError"

\* the exception a failure of _refresh_token reaches the caller as
RefreshError(why) ==
    IF why = "transport" THEN "RequestException"        \* line 118 is outside try
    ELSE "AuthenticationError"

\* as OnFailure, with an error status answered by another POST
OnFailureRetry(why) == IF why = "http_error" THEN "post" ELSE "raising"

\* as OnFailure, with the error swallowed and the cached token returned
OnFailureSwallow(why) == "ret"

\* lines 118-134: where _refresh_token goes when the exchange fails: it
\* raises, whatever the failure
OnFailure(why) == "raising"

\* parsed["access_token"] of an accepted response to the n-th POST
ResponseToken(r, n) ==
    IF r.tok = "str" THEN StrToken(n) ELSE EmptyToken

\* as Header, without the "Bearer " prefix
HeaderBare(tok) == [Authorization |-> <<tok>>]

\* the mapping header_factory builds
Header(tok) == [Authorization |-> <<"Bearer ", tok>>]

\* a thread calls header_factory(), for the first time or after its
\* previous call returned or raised
Call(t) ==
    /\ phase = "ready"
    /\ th[t].pc \in {"idle", "done", "raised"}
    /\ calls < MaxCalls
    /\ calls' = calls + 1
    /\ th' = [th EXCEPT ![t] = [BlankCall EXCEPT !.pc = "acquire", !.callPosts = posts]]
    /\ UNCHANGED <<ctorVars, access_token, expires_at, lock, now, posts, storedPost, latest, payload>>

\* _get_token: with self._lock
Acquire(t) ==
    /\ th[t].pc = "acquire"
    /\ LockFree
    /\ lock' = lock \cup {t}
    /\ th' = [th EXCEPT ![t].pc = "check"]
    /\ UNCHANGED <<ctorVars, access_token, expires_at, now, posts, calls, storedPost, latest, payload>>

\* _get_token: if self._needs_refresh()
Check(t) ==
    /\ th[t].pc = "check"
    /\ th' = [th EXCEPT
                ![t].pc = IF NeedsRefresh(access_token, expires_at, refresh_margin, now)
                          THEN "post" ELSE "ret",
                ![t].sawNow = now,
                ![t].sawTok = access_token,
                ![t].sawExp = expires_at]
    /\ UNCHANGED <<ctorVars, access_token, expires_at, lock, now, posts, calls,
                   storedPost, latest, payload>>

\* _refresh_token: requests.post is issued
Post(t) ==
    /\ th[t].pc = "post"
    /\ posts' = posts + 1
    /\ payload' = TokenRequest(token_endpoint, client_id, client_secret, scopes)
    /\ th' = [th EXCEPT ![t].pc = "await", ![t].myPost = posts + 1]
    /\ UNCHANGED <<ctorVars, access_token, expires_at, lock, now, calls, storedPost, latest>>

\* _refresh_token, lines 118-140: the POST ends with outcome r, which is
\* checked and parsed
Respond(t, r) ==
    /\ th[t].pc = "await"
    /\ IF RefreshFailure(r) # "none"
       THEN /\ th' = [th EXCEPT ![t].pc = OnFailure(RefreshFailure(r)),
                                ![t].why = RefreshFailure(r),
                                ![t].err = RefreshError(RefreshFailure(r))]
            /\ UNCHANGED latest
       ELSE /\ th' = [th EXCEPT ![t].pc = "store_token",
                                ![t].acc = ResponseToken(r, th[t].myPost),
                                ![t].ein = ParseExpiresIn(r.ein),
                                ![t].einKind = r.ein.kind]
            /\ latest' = ResponseToken(r, th[t].myPost)
    /\ UNCHANGED <<ctorVars, access_token, expires_at, lock, now, posts, calls,
                   storedPost, payload>>

\* _refresh_token, line 142
StoreToken(t) ==
    /\ th[t].pc = "store_token"
    /\ access_token' = th[t].acc
    /\ th' = [th EXCEPT ![t].pc = "store_expiry"]
    /\ UNCHANGED <<ctorVars, expires_at, lock, now, posts, calls, storedPost, latest, payload>>

\* _refresh_token, line 143, and its return
StoreExpiry(t) ==
    /\ th[t].pc = "store_expiry"
    /\ expires_at' = NewExpiry(now, th[t].ein, refresh_margin)
    /\ storedPost' = th[t].myPost
    /\ th' = [th EXCEPT ![t].pc = "ret", ![t].stNow = now, ![t].stored = TRUE,
                        ![t].acc = NoToken]
    /\ UNCHANGED <<ctorVars, access_token, lock, now, posts, calls,
                   latest, payload>>

\* _get_token, lines 106-107: the assertion, then the cached token is read
\* and the lock released as the with block is left
GetTokenReturn(t) ==
    /\ th[t].pc = "ret"
    /\ IF Truthy(access_token)
       THEN /\ lock' = Released(t)
            /\ th' = [th EXCEPT ![t] = [LeaveLock(th[t]) EXCEPT
                                           !.pc = "built", !.ret = access_token]]
       ELSE /\ th' = [th EXCEPT ![t].pc = "raising",
                                ![t].why = "assert",
                                ![t].err = "AssertionError"]
            /\ UNCHANGED lock
    /\ UNCHANGED <<ctorVars, access_token, expires_at, now, posts, calls, storedPost,
                   latest, payload>>

\* an exception leaves the with block: the lock is released and the
\* exception reaches the caller of header_factory
Unwind(t) ==
    /\ th[t].pc = "raising"
    /\ lock' = Released(t)
    /\ th' = [th EXCEPT ![t] = [LeaveLock(th[t]) EXCEPT !.pc = "raised"]]
    /\ UNCHANGED <<ctorVars, access_token, expires_at, now, posts, calls, storedPost, latest, payload>>

\* header_factory, line 74: the header is built and returned
HeaderReturn(t) ==
    /\ th[t].pc = "built"
    /\ th' = [th EXCEPT ![t].pc = "done", ![t].hdr = Header(th[t].ret)]
    /\ UNCHANGED <<ctorVars, access_token, expires_at, lock, now, posts, calls,
                   storedPost, latest, payload>>

Next ==
    \/ \E h \in HostInputs, cid \in ClientIds, sec \in ClientSecrets,
          sc \in {<<>>}, eps \in BOOLEAN, m \in Margins :
            Construct(h, cid, sec, sc, eps, m)
    \/ \E d \in DiscoveryOutcomes : Discover(d)
    \/ Tick
    \/ \E t \in Threads : Call(t)
    \/ \E t \in Threads : Acquire(t)
    \/ \E t \in Threads : Check(t)
    \/ \E t \in Threads : Post(t)
    \/ \E t \in Threads, r \in PostOutcomes : Respond(t, r)
    \/ \E t \in Threads : StoreToken(t)
    \/ \E t \in Threads : StoreExpiry(t)
    \/ \E t \in Threads : GetTokenReturn(t)
    \/ \E t \in Threads : Unwind(t)
    \/ \E t \in Threads : HeaderReturn(t)

Spec == Init /\ [][Next]_vars

\* What a running call may count on: a thread inside header_factory goes on
\* running, every HTTP request comes back (requests is given a timeout), and
\* the lock is fair, so a thread that finds it free again and again gets it.
Fairness ==
    \A t \in Threads :
        /\ SF_vars(Acquire(t))
        /\ WF_vars(Check(t))
        /\ WF_vars(Post(t))
        /\ WF_vars(\E r \in PostOutcomes : Respond(t, r))
        /\ WF_vars(StoreToken(t))
        /\ WF_vars(StoreExpiry(t))
        /\ WF_vars(GetTokenReturn(t))
        /\ WF_vars(Unwind(t))
        /\ WF_vars(HeaderReturn(t))

FairSpec == Init /\ [][Next]_vars /\ Fairness

\* The same provider constructed with every scopes argument of ScopeInputs
\* and the smallest refresh_margin.
NextScopes ==
    \/ \E h \in HostInputs, cid \in ClientIds, sec \in ClientSecrets,
          sc \in ScopeInputs, eps \in BOOLEAN, m \in {0} :
            Construct(h, cid, sec, sc, eps, m)
    \/ \E d \in DiscoveryOutcomes : Discover(d)
    \/ Tick
    \/ \E t \in Threads : Call(t)
    \/ \E t \in Threads : Acquire(t)
    \/ \E t \in Threads : Check(t)
    \/ \E t \in Threads : Post(t)
    \/ \E t \in Threads, r \in PostOutcomes : Respond(t, r)
    \/ \E t \in Threads : StoreToken(t)
    \/ \E t \in Threads : StoreExpiry(t)
    \/ \E t \in Threads : GetTokenReturn(t)
    \/ \E t \in Threads : Unwind(t)
    \/ \E t \in Threads : HeaderReturn(t)

SpecScopes == Init /\ [][NextScopes]_vars

\* -------------------------------------------- _normalize_hostname on its own
\* the characters hostnames are made of: a host character and the slash
HostChars == {"a", "/"}

\* every string over HostChars up to MaxHostLen, bare and behind "https://"
HostnameStrings ==
    LET bodies == UNION {[1..k -> HostChars] : k \in 0..MaxHostLen}
    IN bodies \cup {Https \o b : b \in bodies}

\* a non-empty server_hostname is about to be normalized
InitNorm ==
    /\ phase = "new"
    /\ \E h \in HostnameStrings \ {<<>>} :
           args = [NoArgs EXCEPT !.server_hostname = h]
    /\ ctor_err = "none"
    /\ disc = "none"
    /\ hostname = <<>>
    /\ client_id = <<>>
    /\ client_secret = <<>>
    /\ scopes = <<>>
    /\ refresh_margin = 0
    /\ token_endpoint = "unset"
    /\ access_token = NoToken
    /\ expires_at = 0
    /\ lock = {}
    /\ now = 0
    /\ gets = 0
    /\ posts = 0
    /\ calls = 0
    /\ storedPost = 0
    /\ latest = NoToken
    /\ payload = NoPayload
    /\ th = [t \in Threads |-> BlankCall]

\* line 48: self._hostname = _normalize_hostname(server_hostname)
Normalize ==
    /\ phase = "new"
    /\ phase' = "normalized"
    /\ hostname' = NormalizeHostname(args.server_hostname)
    /\ UNCHANGED <<args, ctor_err, disc, client_id, client_secret, scopes,
                   refresh_margin, token_endpoint, access_token, expires_at, lock,
                   now, gets, posts, calls, storedPost, latest, payload, th>>

NextNorm == Normalize

SpecNorm == InitNorm /\ [][NextNorm]_vars

\* =================================================================== claims
\* the thread is inside the with block, past the call of _needs_refresh
InCritical(t) ==
    th[t].pc \in {"post", "await", "store_token", "store_expiry", "ret", "raising"}

\* the specification's validity window: a token exists and the clock reading
\* is earlier than expiry - margin
CacheValid(tok, exp, margin, n) == tok.kind = "str" /\ n < exp - margin

\* the threads whose token POST is in flight
InFlight == {t \in Threads : th[t].pc = "await"}

\* C1: at most one token POST of the instance is in flight at any time,
\* whatever the interleaving of the calling threads.
C1_AtMostOneFetchInFlight == Cardinality(InFlight) <= 1

\* a POST is in flight while another caller waits for the lock
C1_Witness ==
    \E t, u \in Threads :
        t # u /\ th[t].pc = "await" /\ th[u].pc = "acquire"

\* C2: no duplicate token requests by concurrent callers. A caller whose call
\* began before a refresh that then succeeded (the first POST after the call
\* began stored a token), and whose clock reading is earlier than the new
\* expiry minus the margin, issues no POST: exactly one POST was made since
\* it called, and it returns that POST's token, as the refreshing caller does.
C2_NoDuplicateRequests ==
    \A u \in Threads :
        /\ (/\ th[u].pc \in {"post", "await"}
            /\ storedPost = th[u].callPosts + 1
            /\ Truthy(access_token))
           => ~(th[u].sawNow < expires_at - refresh_margin)
        /\ (/\ th[u].pc = "ret"
            /\ th[u].myPost = 0
            /\ storedPost = th[u].callPosts + 1)
           => /\ posts = th[u].callPosts + 1
              /\ access_token = StrToken(storedPost)
        /\ (th[u].pc = "ret" /\ th[u].stored /\ Truthy(access_token))
           => access_token = StrToken(th[u].myPost)

\* a caller that waited during another caller's refresh is about to return
\* the token of the one POST, which the refreshing caller has returned too
C2_Witness ==
    \E t, u \in Threads :
        /\ t # u
        /\ th[u].pc = "ret" /\ th[u].myPost = 0 /\ th[u].callPosts = 0
        /\ posts = 1 /\ storedPost = 1
        /\ th[t].pc \in {"built", "done"} /\ th[t].ret = access_token

\* C3: after a successful refresh (one that stored a token with expiry E), no
\* call whose clock reading is earlier than E minus the margin issues a POST.
C3_OneRefreshPerWindow ==
    \A t \in Threads :
        (/\ InCritical(t)
         /\ storedPost > 0
         /\ Truthy(th[t].sawTok)
         /\ th[t].sawNow < th[t].sawExp - refresh_margin)
        => (th[t].pc = "ret" /\ th[t].myPost = 0 /\ ~th[t].stored)

\* a further call, at a later clock reading inside the window, is served
\* from the cache: all the calls made so far cost one POST
C3_Witness ==
    \E t \in Threads :
        /\ th[t].pc = "ret" /\ th[t].myPost = 0
        /\ th[t].sawNow >= 1
        /\ calls >= 2 /\ posts = 1

\* C4: the cache is treated as valid exactly when a token exists and
\* now < expiry - margin; a call that finds it outside this window (no token,
\* or now >= expiry - margin, the boundary included) has POSTed, and has
\* stored the response before it returns.
C4_RefreshOutsideWindow ==
    \A t \in Threads :
        InCritical(t) =>
            LET valid == CacheValid(th[t].sawTok, th[t].sawExp, refresh_margin,
                                    th[t].sawNow)
            IN /\ valid <=> (th[t].pc = "ret" /\ th[t].myPost = 0)
               /\ (~valid /\ th[t].pc # "post") => th[t].myPost # 0
               /\ (~valid /\ th[t].pc = "ret") => th[t].stored

\* a call finds a cached token exactly at the boundary now = expiry - margin
\* and refreshes
C4_Witness ==
    \E t \in Threads :
        /\ th[t].pc = "post"
        /\ Truthy(th[t].sawTok)
        /\ th[t].sawNow = th[t].sawExp - refresh_margin

\* C5: a refresh that fails on an error status or on a response without
\* access_token raises AuthenticationError and leaves the cached token and
\* the cached expiry as they were.
C5_FailedRefreshKeepsCache ==
    \A t \in Threads :
        (th[t].pc = "raising"
         /\ th[t].why \in {"http_error", "unparsable", "not_object", "missing"})
        => /\ th[t].err = "AuthenticationError"
           /\ access_token = th[t].sawTok
           /\ expires_at = th[t].sawExp

\* a refresh fails on a response without access_token while a token is cached
C5_Witness ==
    \E t \in Threads :
        /\ th[t].pc = "raising" /\ th[t].why = "missing"
        /\ Truthy(access_token) /\ expires_at > 0

\* C6: every failure of the token exchange reaches the caller of the header
\* factory as AuthenticationError, a POST that times out or fails at the
\* transport level included.
C6_ExchangeFailuresAreAuthenticationErrors ==
    \A t \in Threads :
        /\ (th[t].pc = "raising" /\ th[t].why # "assert")
           => th[t].err = "AuthenticationError"
        /\ th[t].pc = "raised" => th[t].err # "RequestException"

\* C7 (as claimed): the header a call returns carries the token that is
\* cached at the moment it is returned, so that no older token is returned
\* once a newer one has been stored.
C7_ReturnsNewestStoredToken ==
    [][\A t \in Threads :
          (HeaderReturn(t) /\ Truthy(access_token))
          => th'[t].hdr = [Authorization |-> <<"Bearer ", access_token>>]]_vars

\* C7 (amended): the cache a call reads under the lock holds the access_token
\* of the most recent accepted token response, the cache never holds a token
\* newer than that response, and the header returned is exactly
\* {"Authorization": "Bearer " + T} for the token T the call read.
C7_HeaderCarriesTokenReadUnderLock ==
    /\ \A t \in Threads :
        /\ th[t].pc = "ret" => access_token = latest
        /\ th[t].pc \in {"built", "done"} => (Truthy(th[t].ret) /\ th[t].ret.id <= posts)
        /\ th[t].pc = "done"
           => th[t].hdr = [Authorization |-> <<"Bearer ", th[t].ret>>]
    /\ (Truthy(access_token) /\ Truthy(latest)) => access_token.id <= latest.id

\* two calls have returned, the first token and then, after the clock
\* passed the expiry, the second
C7_Witness ==
    \E t, u \in Threads :
        /\ th[t].pc = "done"
        /\ th[t].hdr = [Authorization |-> <<"Bearer ", StrToken(1)>>]
        /\ th[u].pc = "done"
        /\ th[u].hdr = [Authorization |-> <<"Bearer ", StrToken(2)>>]
        /\ now >= 1

\* C8: a constructor call with an empty hostname, client id or client secret
\* fails with ConfigurationError, whatever the other arguments, before any
\* HTTP request is issued.
C8_EmptyArgumentIsConfigurationError ==
    (/\ phase # "new"
     /\ \/ args.server_hostname = <<>>
        \/ args.client_id = <<>>
        \/ args.client_secret = <<>>)
    => /\ phase = "failed"
       /\ ctor_err = "ConfigurationError"
       /\ gets = 0
       /\ posts = 0

\* the constructor was called with a hostname and a client id but an empty
\* client secret
C8_Witness ==
    /\ phase = "failed"
    /\ args.server_hostname # <<>>
    /\ args.client_id # <<>>
    /\ args.client_secret = <<>>

\* C9: construction fails with AuthenticationError whenever the discovery GET
\* fails or its response lacks token_endpoint (absent, empty, or the body is
\* not a JSON object), and no provider is produced.
C9_DiscoveryFailureIsAuthenticationError ==
    disc \in {"transport", "http_error", "unparsable", "not_object", "absent", "empty"}
    => (phase = "failed" /\ ctor_err = "AuthenticationError")

\* C10 (as claimed): when a response carrying a token has expires_in absent
\* or non-numeric, the stored expiry is 3600 seconds after the clock reading
\* of the store, for every margin.
C10_DefaultExpiryIs3600 ==
    \A t \in Threads :
        (/\ th[t].pc = "ret" /\ th[t].stored /\ Truthy(access_token)
         /\ th[t].einKind \in {"absent", "nonnum"})
        => expires_at = th[t].stNow + DefaultExpiresIn

\* C10 (amended): with expires_in absent or non-numeric the stored expiry is
\* the clock reading of the store plus max(3600, margin + 1): 3600 seconds
\* after it for every margin below 3600, margin + 1 seconds after it otherwise.
C10_DefaultExpiryClamped ==
    \A t \in Threads :
        (th[t].pc = "ret" /\ th[t].stored /\ th[t].einKind \in {"absent", "nonnum"})
        => IF refresh_margin < DefaultExpiresIn
           THEN expires_at = th[t].stNow + DefaultExpiresIn
           ELSE expires_at = th[t].stNow + refresh_margin + 1

\* a response with a non-numeric expires_in is stored at a clock reading
\* past 0, under the margin 0
C10_Witness ==
    \E t \in Threads :
        /\ th[t].pc = "ret" /\ th[t].stored /\ th[t].einKind = "nonnum"
        /\ refresh_margin = 0
        /\ th[t].stNow >= 1

\* C11: after every successful refresh the stored expiry is the clock reading
\* of the store plus max(expires_in, refresh_margin + 1), whatever integer
\* expires_in was (0, negative and values up to the margin included); so the
\* expiry less the margin is later than that reading, and a call at the same
\* reading finds the stored token valid, _needs_refresh being false of it.
C11_ExpiryClampedPastMargin ==
    \A t \in Threads :
        (th[t].pc = "ret" /\ th[t].stored)
        => /\ expires_at = th[t].stNow + Max(th[t].ein, refresh_margin + 1)
           /\ expires_at - refresh_margin > th[t].stNow
           /\ Truthy(access_token)
              => ~NeedsRefresh(access_token, expires_at, refresh_margin, th[t].stNow)

\* a token that came with a negative expires_in has been stored at a clock
\* reading past 0
C11_Witness ==
    \E t \in Threads :
        /\ th[t].pc = "ret" /\ th[t].stored /\ Truthy(access_token)
        /\ th[t].einKind = "int" /\ th[t].ein < 0
        /\ th[t].stNow >= 1

\* C12: no partial-success states. Whenever no thread holds the lock the
\* cached token and expiry are the pair from before the last refresh attempt
\* or the complete pair one successful refresh wrote (the token of the latest
\* accepted response, with the expiry stored from that same response); and a
\* call that is failing has left the cache as it found it.
C12_NoPartialSuccess ==
    /\ lock = {}
       => /\ access_token = latest
          /\ Truthy(access_token) => access_token.id = storedPost
          /\ storedPost = 0 => (access_token = NoToken /\ expires_at = 0)
    /\ \A t \in Threads :
        th[t].pc = "raising"
        => (access_token = th[t].sawTok /\ expires_at = th[t].sawExp)

\* C13: the token endpoint is resolved once, at construction. A provider has
\* issued exactly one discovery GET, during construction, and it never issues
\* another; construction issues no token POST; and every POST goes to the
\* endpoint discovered then, with the client id and the client secret given
\* to the constructor and the scopes joined by single spaces.
C13_EndpointResolvedOnce ==
    /\ gets = (IF phase \in {"discovering", "ready"} \/ disc # "none" THEN 1 ELSE 0)
    /\ phase # "ready" => (posts = 0 /\ payload = NoPayload)
    /\ posts > 0
       => /\ payload.url = "endpoint" /\ payload.url = token_endpoint
          /\ payload.grant_type = "client_credentials"
          /\ payload.client_id = args.client_id
          /\ payload.client_secret = args.client_secret
          /\ payload.scope = JoinSpace(scopes)
          /\ scopes = << <<"a">>, <<"b">> >> => payload.scope = <<"a", " ", "b">>
          /\ scopes = DefaultScopes => payload.scope = <<"s", "q", "l">>

\* a provider constructed with two scopes has issued its second POST
C13_Witness ==
    /\ phase = "ready" /\ gets = 1
    /\ posts >= 2
    /\ payload.scope = <<"a", " ", "b">>

\* C14: no internal retry. A call that is about to POST has issued no POST
\* and met no failure in this call, and a call whose exchange failed is
\* raising, or has the failure already behind it as its exception: a failed
\* POST is followed by the error, never by a second POST of the same call.
C14_AtMostOnePostPerCall ==
    \A t \in Threads :
        /\ th[t].pc = "post" => (th[t].myPost = 0 /\ th[t].why = "none")
        /\ (th[t].why \notin {"none", "assert"}) => th[t].pc = "raising"
        /\ th[t].myPost # 0 => th[t].myPost > th[t].callPosts

\* a call's POST was answered with an error status and the call is raising,
\* one POST having been issued since the call began
C14_Witness ==
    \E t \in Threads :
        /\ th[t].pc = "raising" /\ th[t].why = "http_error"
        /\ th[t].myPost = th[t].callPosts + 1
        /\ posts = th[t].myPost

\* the part of a hostname after the scheme, trailing slashes dropped
HostPart(h) ==
    RStripSlash(IF StartsWith(h, Https) THEN SubSeq(h, Len(Https) + 1, Len(h)) ELSE h)

C16_FailedRefreshNeverServesStale ==
    /\ \A t \in Threads :
        /\ (th[t].why \notin {"none", "assert"})
           => (th[t].pc = "raising" /\ th[t].ret = NoToken)
        /\ th[t].pc = "raised"
           => (th[t].ret = NoToken /\ th[t].hdr = BlankCall.hdr)
        /\ (th[t].pc = "ret" /\ th[t].myPost = 0) => posts = storedPost
    /\ (lock = {} /\ posts > storedPost)
       => NeedsRefresh(access_token, expires_at, refresh_margin, now)

\* a call found a token cached but out of its window, its POST was answered
\* with an error status, and it is raising with the stale token still cached
C16_Witness ==
    \E t \in Threads :
        /\ th[t].pc = "raising" /\ th[t].why = "http_error"
        /\ Truthy(th[t].sawTok)
        /\ th[t].sawNow >= th[t].sawExp - refresh_margin
        /\ access_token = th[t].sawTok

\* C17: the lock is released on every exit from the critical section. In no
\* state is the lock held while no thread is inside it: whoever holds the
\* lock is between the entry of the with block and its exit, and a call that
\* has returned or raised (after a failed POST, a malformed response or the
\* failed assertion) holds it no more, so the callers after it get in.
C17_LockHeldOnlyInsideCall ==
    /\ Cardinality(lock) <= 1
    /\ \A t \in Threads :
        t \in lock <=> (th[t].pc = "check" \/ InCritical(t))

\* a call has raised, out of the failed assertion or a malformed response,
\* and another caller has entered the critical section after it
C17_Witness ==
    \E t, u \in Threads :
        /\ th[t].pc = "raised"
        /\ th[t].err \in {"AssertionError", "AuthenticationError"}
        /\ u \in lock /\ th[u].pc = "check"

\* C18: the assertion of _get_token never fails. Whatever response of
\* success status the token endpoint gives (access_token empty included), a
\* call returns a header with a non-empty token or raises an
\* AuthenticationError: no call raises an AssertionError.
C18_AssertionNeverFails ==
    \A t \in Threads :
        /\ th[t].err # "AssertionError"
        /\ th[t].pc \in {"built", "done"} => Truthy(th[t].ret)

\* the clock readings a later call may make, and two past the last
LaterReadings == 0..(MaxTime + 2)

\* C19: a token is never served from the cache past its lifetime. Once a
\* refresh at clock reading t has stored a token that came with an integer
\* expires_in >= 1 (refresh_margin >= 0), every clock reading at which
\* _needs_refresh is false of the stored token and expiry, that is, at which
\* a later call returns the token without refreshing, is earlier than
\* t + expires_in.
C19_NeverServedPastLifetime ==
    \A t \in Threads :
        (/\ th[t].pc = "ret" /\ th[t].stored /\ Truthy(access_token)
         /\ th[t].einKind = "int" /\ th[t].ein >= 1)
        => \A n \in LaterReadings :
              ~NeedsRefresh(access_token, expires_at, refresh_margin, n)
              => n < th[t].stNow + th[t].ein

\* a token that came with an expires_in of 2, less than the margin, has been
\* stored at a clock reading past 0
C19_Witness ==
    \E t \in Threads :
        /\ th[t].pc = "ret" /\ th[t].stored /\ Truthy(access_token)
        /\ th[t].einKind = "int" /\ th[t].ein = 2
        /\ refresh_margin > th[t].ein
        /\ th[t].stNow >= 1

\* C20: every header-factory call completes. With HTTP requests that
\* terminate and a fair lock, a call that has begun (it waits for the lock)
\* comes to its end: it returns a header or raises.
C20_EveryCallCompletes ==
    \A t \in Threads :
        (th[t].pc = "acquire") ~> (th[t].pc \in {"done", "raised"})

\* two calls have come to their ends: one has returned the header of the
\* first POST, the other has raised after the second POST
C20_Witness ==
    \E t, u \in Threads :
        /\ th[t].pc = "done" /\ Truthy(th[t].ret)
        /\ th[u].pc = "raised"
        /\ posts = 2 /\ storedPost = 1

====
